---- MODULE Spec2Model ----
(***************************************************************************)
(* A model of the stats aggregation, merge/paginate and batched activity   *)
(* collection core of stormlight-backend/app/main.py.                      *)
(*                                                                         *)
(* Strings the code inspects character by character (usernames, skill      *)
(* names, roster fields) are sequences of one-character strings, so that   *)
(* str.lower(), str.isdigit(), str.split(',') and int() are computed.      *)
(* Python dicts are records/functions whose DOMAIN is the set of keys      *)
(* present; None is the empty sequence and a present optional value v is   *)
(* <<v>>.  datetime.now() stamps (last_updated, discovered_at) are left    *)
(* out of the stored entries: no modelled operation reads them.            *)
(***************************************************************************)
EXTENDS Integers, Sequences, FiniteSets, TLC

VARIABLES
    player_stats_cache,     \* main.py:47  key -> entry
    discovered_players_db,  \* main.py:48  insertion-ordered list of [key, username, source]
    env,                    \* the scenario: what the services hold and callers send
    req,                    \* one record per in-flight get_global_hiscores request
    call,                   \* a single call: the handler, its arguments, what its fetches return
    result,                 \* what that call returned, None before it ran
    clock,                  \* datetime.now().timestamp(), in whole seconds
    act                     \* the get_clan_activities request: locals and position

hiscoreVars == <<player_stats_cache, discovered_players_db, env, req>>
callVars == <<call, result>>
activityVars == <<clock, act>>
vars == <<hiscoreVars, callVars, activityVars>>

(***************************************************************************)
(* Bounds of the model.                                                    *)
(***************************************************************************)
NumRequests == 2

Range(s) == {s[i] : i \in DOMAIN s}
Min(S) == CHOOSE x \in S : \A y \in S : x <= y
None == <<>>
Some(v) == <<v>>

(***************************************************************************)
(* str.lower(): ASCII letters are folded, every other character is kept.   *)
(***************************************************************************)
UpperLetters == <<"A","B","C","D","E","F","G","H","I","J","K","L","M",
                  "N","O","P","Q","R","S","T","U","V","W","X","Y","Z">>
LowerLetters == <<"a","b","c","d","e","f","g","h","i","j","k","l","m",
                  "n","o","p","q","r","s","t","u","v","w","x","y","z">>

LowerChar(c) ==
    IF \E i \in 1..Len(UpperLetters) : UpperLetters[i] = c
    THEN LowerLetters[CHOOSE i \in 1..Len(UpperLetters) : UpperLetters[i] = c]
    ELSE c

Lower(s) == [i \in 1..Len(s) |-> LowerChar(s[i])]

(***************************************************************************)
(* Characters.  Sup2 stands for the one character U+00B2 (superscript      *)
(* two, a latin-1 character): str.isdigit() accepts it and int() does not. *)
(* CodeOrder lists the characters used in code-point order, which is the   *)
(* order Python compares strings by.                                       *)
(***************************************************************************)
Sup2 == "^2"
Digits == <<"0","1","2","3","4","5","6","7","8","9">>
Whitespace == {" ", "\t", "\r", "\n"}
CodeOrder == <<"\t", "\n", "\r", " ", ",">> \o Digits \o UpperLetters \o <<"_">>
             \o LowerLetters \o <<Sup2>>

CharCode(c) == CHOOSE i \in 1..Len(CodeOrder) : CodeOrder[i] = c

\* a < b for Python strings
StrLess(a, b) ==
    \/ Len(a) < Len(b) /\ \A k \in 1..Len(a) : a[k] = b[k]
    \/ \E k \in 1..Len(a) :
        /\ k <= Len(b)
        /\ \A j \in 1..(k - 1) : a[j] = b[j]
        /\ CharCode(a[k]) < CharCode(b[k])

IsAsciiDigit(c) == \E i \in 1..Len(Digits) : Digits[i] = c
DigitValue(c) == (CHOOSE i \in 1..Len(Digits) : Digits[i] = c) - 1

\* str.isdigit(): not empty, every character a digit character
IsDigit(s) == /\ s # <<>>
              /\ \A k \in 1..Len(s) : IsAsciiDigit(s[k]) \/ s[k] = Sup2

\* int(s) raises ValueError unless s is a decimal literal
IntRaises(s) == s = <<>> \/ \E k \in 1..Len(s) : ~IsAsciiDigit(s[k])

RECURSIVE IntValue(_)
IntValue(s) ==
    IF s = <<>> THEN 0
    ELSE 10 * IntValue(SubSeq(s, 1, Len(s) - 1)) + DigitValue(s[Len(s)])

\* str.strip()
Strip(s) ==
    LET keep == {k \in 1..Len(s) : s[k] \notin Whitespace}
    IN  IF keep = {} THEN <<>>
        ELSE SubSeq(s, CHOOSE k \in keep : \A j \in keep : k <= j,
                       CHOOSE k \in keep : \A j \in keep : j <= k)

\* str.split(sep) for a one-character separator
RECURSIVE Split(_, _)
Split(s, sep) ==
    LET at == {k \in 1..Len(s) : s[k] = sep}
    IN  IF at = {} THEN <<s>>
        ELSE LET i == CHOOSE k \in at : \A j \in at : k <= j
             IN  <<SubSeq(s, 1, i - 1)>> \o Split(SubSeq(s, i + 1, Len(s)), sep)

\* str.replace(c, '')
Remove(s, c) == LET NotC(x) == x # c IN SelectSeq(s, NotC)

\* sep.join(parts)
RECURSIVE Join(_, _)
Join(parts, sep) ==
    IF parts = <<>> THEN <<>>
    ELSE IF Len(parts) = 1 THEN parts[1]
    ELSE parts[1] \o <<sep>> \o Join(Tail(parts), sep)

\* needle in haystack
Contains(haystack, needle) ==
    \E k \in 0..(Len(haystack) - Len(needle)) :
        \A j \in 1..Len(needle) : haystack[k + j] = needle[j]

(***************************************************************************)
(* The skill catalog.  SkillNames lists the names in table-id order, so    *)
(* SKILL_TABLE_MAPPING sends the name at index i to i-1 and                *)
(* RUNEMETRICS_SKILL_MAPPING sends id k to the name at index k+2.          *)
(***************************************************************************)
SkillNames == <<
    <<"o","v","e","r","a","l","l">>,
    <<"a","t","t","a","c","k">>,
    <<"d","e","f","e","n","c","e">>,
    <<"s","t","r","e","n","g","t","h">>,
    <<"c","o","n","s","t","i","t","u","t","i","o","n">>,
    <<"r","a","n","g","e","d">>,
    <<"p","r","a","y","e","r">>,
    <<"m","a","g","i","c">>,
    <<"c","o","o","k","i","n","g">>,
    <<"w","o","o","d","c","u","t","t","i","n","g">>,
    <<"f","l","e","t","c","h","i","n","g">>,
    <<"f","i","s","h","i","n","g">>,
    <<"f","i","r","e","m","a","k","i","n","g">>,
    <<"c","r","a","f","t","i","n","g">>,
    <<"s","m","i","t","h","i","n","g">>,
    <<"m","i","n","i","n","g">>,
    <<"h","e","r","b","l","o","r","e">>,
    <<"a","g","i","l","i","t","y">>,
    <<"t","h","i","e","v","i","n","g">>,
    <<"s","l","a","y","e","r">>,
    <<"f","a","r","m","i","n","g">>,
    <<"r","u","n","e","c","r","a","f","t","i","n","g">>,
    <<"h","u","n","t","e","r">>,
    <<"c","o","n","s","t","r","u","c","t","i","o","n">>,
    <<"s","u","m","m","o","n","i","n","g">>,
    <<"d","u","n","g","e","o","n","e","e","r","i","n","g">>,
    <<"d","i","v","i","n","a","t","i","o","n">>,
    <<"i","n","v","e","n","t","i","o","n">>,
    <<"a","r","c","h","a","e","o","l","o","g","y">>,
    <<"n","e","c","r","o","m","a","n","c","y">> >>

overall == SkillNames[1]
attack == SkillNames[2]

SKILL_TABLE_MAPPING ==
    [n \in Range(SkillNames) |-> (CHOOSE i \in 1..Len(SkillNames) : SkillNames[i] = n) - 1]

RUNEMETRICS_SKILL_MAPPING == [k \in 0..(Len(SkillNames) - 2) |-> SkillNames[k + 2]]

\* main.py:131  table_id = SKILL_TABLE_MAPPING.get(skill.lower(), 0)
TableIdNoLower(skill) ==
    IF skill \in DOMAIN SKILL_TABLE_MAPPING THEN SKILL_TABLE_MAPPING[skill] ELSE 0

TableId(skill) ==
    IF Lower(skill) \in DOMAIN SKILL_TABLE_MAPPING
    THEN SKILL_TABLE_MAPPING[Lower(skill)]
    ELSE 0

(***************************************************************************)
(* fetch_player_stats (main.py:67-125).  A response of the stats endpoint  *)
(* is [raised, status, data]; data is the decoded JSON object.             *)
(***************************************************************************)
Placeholder == [rank |-> None, level |-> 1, xp |-> 0]

\* main.py:89-98: the skillvalues entries with a known id, later ones winning
SkillValue(data, name) ==
    LET sv == IF "skillvalues" \in DOMAIN data THEN data.skillvalues ELSE <<>>
        hits == {i \in 1..Len(sv) :
                    /\ sv[i].id \in DOMAIN RUNEMETRICS_SKILL_MAPPING
                    /\ RUNEMETRICS_SKILL_MAPPING[sv[i].id] = name}
    IN  IF hits = {} THEN None
        ELSE LET e == sv[CHOOSE i \in hits : \A j \in hits : j <= i]
             IN  Some([rank  |-> IF "rank" \in DOMAIN e THEN Some(e.rank) ELSE None,
                       level |-> IF "level" \in DOMAIN e THEN e.level ELSE 1,
                       xp    |-> IF "xp" \in DOMAIN e THEN e.xp ELSE 0])

\* main.py:84: data.get('rank') is truthy and is not '0'
HasRank(data) == "rank" \in DOMAIN data /\ data.rank # <<>> /\ data.rank # <<"0">>

\* main.py:84: int(...) raises ValueError, which line 123 catches
RankRaises(data) == HasRank(data) /\ IntRaises(Remove(data.rank, ","))

\* main.py:83-87: the overall record; rank arrives as a string such as "1,200"
OverallRecord(data) ==
    [rank  |-> IF HasRank(data) THEN Some(IntValue(Remove(data.rank, ","))) ELSE None,
     level |-> IF "totalskill" \in DOMAIN data THEN data.totalskill ELSE 0,
     xp    |-> IF "totalxp" \in DOMAIN data THEN data.totalxp ELSE 0]

ParseStatsSparse(data) ==
    [n \in {overall} \cup {m \in Range(RUNEMETRICS_SKILL_MAPPING) : SkillValue(data, m) # None} |->
        IF n = overall THEN OverallRecord(data) ELSE SkillValue(data, n)[1]]

\* main.py:81-107
ParseStats(data) ==
    [n \in {overall} \cup Range(RUNEMETRICS_SKILL_MAPPING) |->
        IF n = overall THEN OverallRecord(data)
        ELSE IF SkillValue(data, n) # None THEN SkillValue(data, n)[1]
        ELSE Placeholder]

\* main.py:109-113
CacheEntry(username, data) ==
    [stats    |-> ParseStats(data),
     username |-> IF "name" \in DOMAIN data THEN data.name ELSE username]

FetchIgnoresErrorPayload(resp) ==
    /\ ~resp.raised
    /\ resp.status = 200
    /\ ~RankRaises(resp.data)

\* main.py:74-79: the fetch yields an entry
FetchSucceeds(resp) ==
    /\ ~resp.raised
    /\ resp.status = 200
    /\ "error" \notin DOMAIN resp.data
    /\ ~RankRaises(resp.data)

DictPut(d, k, v) == [x \in DOMAIN d \cup {k} |-> IF x = k THEN v ELSE d[x]]

\* main.py:109  player_stats_cache[username.lower()] = {...}
CacheAfterFetch(cache, username, resp) ==
    IF FetchSucceeds(resp)
    THEN DictPut(cache, Lower(username), CacheEntry(username, resp.data))
    ELSE cache

\* main.py:115-125: the returned value, None on every failure
FetchResult(username, resp) ==
    IF FetchSucceeds(resp) THEN Some(CacheEntry(username, resp.data)) ELSE None


(***************************************************************************)
(* The external services, as far as the requests can tell them apart.      *)
(* Usernames: A, B, C are on the ranking feed; D is looked up by search,   *)
(* also as "d" and as "D_", for which the stats service answers with the   *)
(* display name "D".  E and F only fill a ranking feed of six entries.     *)
(***************************************************************************)
uA == <<"A">>
uB == <<"B">>
uC == <<"C">>
uD == <<"D">>
ud == <<"d">>
uD_ == <<"D","_">>

DisplayOf(u) == IF u \in {ud, uD_} THEN uD ELSE u

Profile(name, xp) ==
    [name |-> name, rank |-> <<"1", ",", "2", "0", "0">>, totalskill |-> 99, totalxp |-> xp,
     skillvalues |-> <<[id |-> 0, level |-> 99, xp |-> xp, rank |-> 1]>>]

XpOf(name) == CASE name = uA -> 100 [] name = uB -> 300 [] name = uC -> 200 [] OTHER -> 250

ProfilesOf(names) == [u \in names |-> Profile(DisplayOf(u), XpOf(DisplayOf(u)))]

Attack == <<"A","t","t","a","c","k">>
bogus == <<"b","o","g","u","s">>

(***************************************************************************)
(* A scenario fixes what the outside can do: the profiles the stats        *)
(* service holds, the lists the ranking feed may return, and the           *)
(* parameters callers send.  Init picks one; no action changes it.         *)
(***************************************************************************)
Scenario(names, feeds, skills, pages, limits, searches) ==
    [profiles |-> ProfilesOf(names), feeds |-> feeds, skills |-> skills,
     pages |-> pages, limits |-> limits, searches |-> searches]

FeedABC == <<[name |-> uA], [name |-> uB], [name |-> uC]>>
FeedB == <<[name |-> uB]>>
FeedBroken == <<[name |-> uB], [score |-> 1]>>
FeedSix == <<[name |-> uA], [name |-> uB], [name |-> uC], [name |-> uD],
             [name |-> <<"E">>], [name |-> <<"F">>]>>

\* overlapping requests
OverlapScenarios ==
    { Scenario({uB, uD, ud}, {FeedB, FeedBroken}, {attack}, {1}, {7, 15}, {uD, ud}) }

\* one request at a time
SeqScenarios ==
    { Scenario({uA, uB, uC, uD}, {FeedABC}, {attack}, {1, 2}, {15, 30}, {uD}),
      Scenario({uB, uD, uD_}, {FeedB, FeedBroken}, {attack}, {1}, {15}, {uD, uD_}),
      Scenario({uB, uD, ud}, {FeedB}, {attack, Attack, bogus, overall}, {1}, {7, 15}, {ud}),
      Scenario({uA, uC, <<"F">>}, {FeedSix}, {attack}, {1}, {15}, {<<"F">>}) }

\* what the stats endpoint may answer to a lookup (main.py:72-79, 116-125)
StatsResponses(u) ==
    { [raised |-> FALSE, status |-> 200,
       data |-> IF u \in DOMAIN env.profiles THEN env.profiles[u] ELSE [error |-> "NO_PROFILE"]],
      [raised |-> FALSE, status |-> 200, data |-> [error |-> "NO_PROFILE"]],
      [raised |-> FALSE, status |-> 404, data |-> [error |-> "none"]],
      [raised |-> FALSE, status |-> 500, data |-> [error |-> "none"]],
      [raised |-> TRUE,  status |-> 0,   data |-> [error |-> "none"]] }

\* what the ranking endpoint may answer (main.py:135-138, 154-159)
RankingResponses ==
    {[raised |-> FALSE, status |-> 200, data |-> f] : f \in env.feeds}
    \cup { [raised |-> FALSE, status |-> 503, data |-> <<>>],
           [raised |-> TRUE,  status |-> 0,   data |-> <<>>] }

Requests == 1..NumRequests

(***************************************************************************)
(* The ledger is an insertion-ordered dict: a new key is appended, an      *)
(* existing key keeps its place and gets the new value.                    *)
(***************************************************************************)
LedgerKeys(db) == {db[i].key : i \in 1..Len(db)}

\* main.py:147-151 and 322-326
LedgerPut(db, username, source) ==
    LET rec == [key |-> Lower(username), username |-> username, source |-> source]
    IN  IF rec.key \in LedgerKeys(db)
        THEN [i \in 1..Len(db) |-> IF db[i].key = rec.key THEN rec ELSE db[i]]
        ELSE Append(db, rec)


(***************************************************************************)
(* Sorting and slicing as get_global_hiscores does them.                   *)
(***************************************************************************)
\* main.py:338  key=lambda x: x['stats'].get(skill, {}).get('xp', 0)
XpKey(p, skill) ==
    IF skill \in DOMAIN p.stats /\ "xp" \in DOMAIN p.stats[skill]
    THEN p.stats[skill].xp
    ELSE 0

InsertBeforeTies(sorted, x, skill) ==
    LET pos == Cardinality({i \in 1..Len(sorted) : XpKey(sorted[i], skill) > XpKey(x, skill)})
    IN  SubSeq(sorted, 1, pos) \o <<x>> \o SubSeq(sorted, pos + 1, Len(sorted))

\* list.sort(reverse=True) is stable: x goes after every element whose key is >= its own
InsertDesc(sorted, x, skill) ==
    LET pos == Cardinality({i \in 1..Len(sorted) : XpKey(sorted[i], skill) >= XpKey(x, skill)})
    IN  SubSeq(sorted, 1, pos) \o <<x>> \o SubSeq(sorted, pos + 1, Len(sorted))

RECURSIVE SortPrefix(_, _, _)
SortPrefix(s, n, skill) ==
    IF n = 0 THEN <<>> ELSE InsertDesc(SortPrefix(s, n - 1, skill), s[n], skill)

\* main.py:338
SortByXp(s, skill) == SortPrefix(s, Len(s), skill)

\* Python's s[start:stop]: negative indexes count from the end, both are clamped
ClampIndex(k, n) ==
    IF k < 0 THEN (IF k + n < 0 THEN 0 ELSE k + n) ELSE (IF k > n THEN n ELSE k)

PySlice(s, start, stop) ==
    SubSeq(s, ClampIndex(start, Len(s)) + 1, ClampIndex(stop, Len(s)))

AlwaysLimit(limit) == limit

\* main.py:313-314
EffectiveLimit(limit) == IF limit \notin {15, 30, 50} THEN 15 ELSE limit

PageFromZero(all_players, page, limit) ==
    PySlice(all_players, page * limit, page * limit + limit)

\* main.py:340-342
PageOf(all_players, page, limit) ==
    PySlice(all_players, (page - 1) * limit, (page - 1) * limit + limit)

HiscoresResponseCountsPage(players, page, limit, skill, db) ==
    [hiscores      |-> players,
     page          |-> page,
     limit         |-> limit,
     total_players |-> Len(players) + 50,
     has_next      |-> (Len(players) = limit),
     skill         |-> skill]

\* main.py:344-353
HiscoresResponse(players, page, limit, skill, db) ==
    [hiscores      |-> players,
     page          |-> page,
     limit         |-> limit,
     total_players |-> Len(db) + 50,
     has_next      |-> (Len(players) = limit),
     skill         |-> skill]


(***************************************************************************)
(* get_global_hiscores (main.py:305-353) with fetch_top_players            *)
(* (main.py:127-159) inlined.  A request gives up control only at its      *)
(* awaits: the ranking GET (135) and the stats GET inside                  *)
(* fetch_player_stats (72), reached from lines 144, 319 and 333.  Each     *)
(* action below is the code from one resumption to the next await.         *)
(*   pc: idle -> search_fetch -> done                                      *)
(*       idle -> ranking_get -> top_fetch* -> ledger_fetch* -> done|raised *)
(***************************************************************************)
NoRequest ==
    [pc |-> "idle", skill |-> <<>>, page |-> 0, limit |-> 0, search |-> <<>>,
     table_id |-> 0, data |-> <<>>, i |-> 0, lookup |-> <<>>, players |-> <<>>,
     top_players |-> <<>>, it_used |-> 0, it_pos |-> 0, fetch_log |-> <<>>,
     discovered_with_stats |-> <<>>, all_players |-> <<>>, response |-> None]

\* main.py:332  [p['username'].lower() for p in top_players]
TopNamesExact(top_players) == {top_players[k].username : k \in 1..Len(top_players)}

TopNames(top_players) == {Lower(top_players[k].username) : k \in 1..Len(top_players)}

\* main.py:337-353: merge, sort, slice, respond
Finish(rq, db) ==
    LET all_players == SortByXp(rq.top_players \o rq.discovered_with_stats, rq.skill)
        players == PageOf(all_players, rq.page, rq.limit)
    IN  [rq EXCEPT !.pc = "done",
                   !.all_players = all_players,
                   !.response = Some(HiscoresResponse(players, rq.page, rq.limit, rq.skill, db))]

\* main.py:331-335: the for loop from ledger position p up to its next await
LedgerLoop(rq, db, p) ==
    LET todo == {j \in p..Len(db) : db[j].key \notin TopNames(rq.top_players)}
    IN  IF todo = {} THEN Finish(rq, db)
        ELSE [rq EXCEPT !.pc = "ledger_fetch",
                        !.it_pos = Min(todo),
                        !.lookup = db[Min(todo)].username]

\* main.py:328-331: fetch_top_players has returned; the dict iterator is created
StartLedgerLoop(rq, top_players, db) ==
    LedgerLoop([rq EXCEPT !.top_players = top_players, !.it_used = Len(db)], db, 1)

\* main.py:141-144 and 152-159: the loop over data[:5] from index i up to its next await
TopLoop(rq, db, i) ==
    IF i > Len(rq.data) \/ i > 5 THEN StartLedgerLoop(rq, rq.players, db)
    ELSE IF "name" \notin DOMAIN rq.data[i] THEN StartLedgerLoop(rq, <<>>, db)
    ELSE [rq EXCEPT !.pc = "top_fetch", !.i = i, !.lookup = rq.data[i].name]

\* main.py:313-319 and 327-135
Start(r) ==
    \E skill \in env.skills, page \in env.pages, limit \in env.limits,
       search \in {<<>>} \cup env.searches :
        /\ req[r].pc = "idle"
        /\ LET rq == [NoRequest EXCEPT !.skill = skill, !.page = page,
                                       !.limit = EffectiveLimit(limit),
                                       !.search = search]
           IN  req' = [req EXCEPT ![r] =
                        IF search # <<>>
                        THEN [rq EXCEPT !.pc = "search_fetch", !.lookup = search]
                        ELSE [rq EXCEPT !.pc = "ranking_get", !.table_id = TableId(skill)]]
        /\ UNCHANGED <<player_stats_cache, discovered_players_db, env>>

\* main.py:319-326 and 344-353
SearchFetchResponse(r) ==
    \E resp \in StatsResponses(req[r].lookup) :
        LET rq == req[r]
            stats == FetchResult(rq.lookup, resp)
            db == IF stats # None
                  THEN LedgerPut(discovered_players_db, rq.search, "search")
                  ELSE discovered_players_db
        IN  /\ rq.pc = "search_fetch"
            /\ player_stats_cache' = CacheAfterFetch(player_stats_cache, rq.lookup, resp)
            /\ discovered_players_db' = db
            /\ req' = [req EXCEPT ![r] =
                        [rq EXCEPT !.pc = "done",
                                   !.response = Some(HiscoresResponse(
                                        IF stats # None THEN <<stats[1]>> ELSE <<>>,
                                        rq.page, rq.limit, rq.skill, db))]]
            /\ UNCHANGED env

\* main.py:135-141 and 154-159
RankingResponse(r) ==
    \E resp \in RankingResponses :
        LET rq == req[r]
        IN  /\ rq.pc = "ranking_get"
            /\ req' = [req EXCEPT ![r] =
                        IF resp.raised \/ resp.status # 200
                        THEN StartLedgerLoop(rq, <<>>, discovered_players_db)
                        ELSE TopLoop([rq EXCEPT !.data = resp.data], discovered_players_db, 1)]
            /\ UNCHANGED <<player_stats_cache, discovered_players_db, env>>

\* main.py:144-151, then the loop goes on
TopFetchResponse(r) ==
    \E resp \in StatsResponses(req[r].lookup) :
        LET rq == req[r]
            stats == FetchResult(rq.lookup, resp)
            db == IF stats # None
                  THEN LedgerPut(discovered_players_db, rq.lookup, "ranking_api")
                  ELSE discovered_players_db
            players == IF stats # None THEN Append(rq.players, stats[1]) ELSE rq.players
        IN  /\ rq.pc = "top_fetch"
            /\ player_stats_cache' = CacheAfterFetch(player_stats_cache, rq.lookup, resp)
            /\ discovered_players_db' = db
            /\ req' = [req EXCEPT ![r] = TopLoop([rq EXCEPT !.players = players], db, rq.i + 1)]
            /\ UNCHANGED env

\* main.py:333-335, then the dict iterator is advanced: it raises RuntimeError
\* when the dict's size differs from the size at its creation
LedgerFetchResponse(r) ==
    \E resp \in StatsResponses(req[r].lookup) :
        LET rq == req[r]
            stats == FetchResult(rq.lookup, resp)
            kept == stats # None /\ rq.skill \in DOMAIN stats[1].stats
            rq2 == [rq EXCEPT !.discovered_with_stats =
                                    IF kept THEN Append(@, stats[1]) ELSE @,
                              !.fetch_log = Append(@, [key |-> discovered_players_db[rq.it_pos].key,
                                                       lookup |-> rq.lookup,
                                                       ok |-> stats # None])]
        IN  /\ rq.pc = "ledger_fetch"
            /\ player_stats_cache' = CacheAfterFetch(player_stats_cache, rq.lookup, resp)
            /\ req' = [req EXCEPT ![r] =
                        IF Len(discovered_players_db) # rq.it_used
                        THEN [rq2 EXCEPT !.pc = "raised"]
                        ELSE LedgerLoop(rq2, discovered_players_db, rq.it_pos + 1)]
            /\ UNCHANGED <<discovered_players_db, env>>

\* the response, or the exception, has gone to the caller
Deliver(r) ==
    /\ req[r].pc \in {"done", "raised"}
    /\ req' = [req EXCEPT ![r] = NoRequest]
    /\ UNCHANGED <<player_stats_cache, discovered_players_db, env>>

Step(r) ==
    /\ \/ Start(r)
       \/ SearchFetchResponse(r)
       \/ RankingResponse(r)
       \/ TopFetchResponse(r)
       \/ LedgerFetchResponse(r)
       \/ Deliver(r)
    /\ UNCHANGED <<callVars, activityVars>>

NoCall == [op |-> "none"]

\* 200000 minutes after the epoch
StartClock == 60 * 200000

NoActivities ==
    [pc |-> "idle", page |-> 0, limit |-> 0, roster |-> None, members |-> <<>>, i |-> 0,
     pending |-> {}, batch_results |-> <<>>, got |-> <<>>, all_activities |-> <<>>,
     pauses |-> 0, caught |-> FALSE, response |-> None]

Quiet == call = NoCall /\ result = None /\ clock = StartClock /\ act = NoActivities


InitState ==
    /\ player_stats_cache = <<>>
    /\ discovered_players_db = <<>>
    /\ req = [r \in Requests |-> NoRequest]

(***************************************************************************)
(* Spec: overlapping requests.  SpecSeq: one request at a time.            *)
(***************************************************************************)
Init == InitState /\ env \in OverlapScenarios /\ Quiet

Next == \E r \in Requests : Step(r)

Spec == Init /\ [][Next]_vars

InitSeq == InitState /\ env \in SeqScenarios /\ Quiet

NextSeq == Step(1)

SpecSeq == InitSeq /\ [][NextSeq]_vars

(***************************************************************************)
(* Claims about the merged list of a ranked (non-search) request.          *)
(***************************************************************************)
RankedDone(r) == req[r].pc = "done" /\ req[r].search = <<>>

\* top_players + discovered_with_stats, the list before sorting and slicing
Merged(r) == req[r].top_players \o req[r].discovered_with_stats

\* C1: the merged list of a ranked request never holds two entries whose
\* usernames are equal after lower-casing.
C1_NoDuplicateUsernames ==
    \A r \in Requests :
        RankedDone(r) =>
            \A i, j \in 1..Len(Merged(r)) :
                i # j => Lower(Merged(r)[i].username) # Lower(Merged(r)[j].username)

\* The ledger keys the loop of a finished ranked request went through and had
\* to fetch: those of the first it_used entries that no ranking player carries.
KeysToFetch(r) ==
    LET top == {Lower(req[r].top_players[k].username) : k \in 1..Len(req[r].top_players)}
        NotInTop(e) == e.key \notin top
        es == SelectSeq(SubSeq(discovered_players_db, 1, req[r].it_used), NotInTop)
    IN  [k \in 1..Len(es) |-> es[k].key]

\* The entries the stats service yields for the fetches that succeeded, when
\* the target skill is one of the thirty skills every entry carries.
ResolvedFromLedger(r) ==
    LET Good(l) == l.ok /\ req[r].skill \in Range(SkillNames)
        ls == SelectSeq(req[r].fetch_log, Good)
    IN  [k \in 1..Len(ls) |-> CacheEntry(ls[k].lookup, env.profiles[ls[k].lookup])]

Count(s, x) == Cardinality({k \in 1..Len(s) : s[k] = x})

\* C2: the list of a finished ranked request for skill s is the ranking
\* players plus, for every ledger key outside the ranking result, the fetched
\* entry when the fetch succeeded and holds s; it is ordered by xp of s,
\* highest first.
C2_MergedListExact ==
    \A r \in Requests :
        RankedDone(r) =>
            LET all == req[r].all_players
            IN  /\ [k \in 1..Len(req[r].fetch_log) |-> req[r].fetch_log[k].key] = KeysToFetch(r)
                /\ req[r].discovered_with_stats = ResolvedFromLedger(r)
                /\ Len(all) = Len(Merged(r))
                /\ \A k \in 1..Len(all) : Count(all, all[k]) = Count(Merged(r), all[k])
                /\ \A i, j \in 1..Len(all) :
                        i < j => XpKey(all[i], req[r].skill) >= XpKey(all[j], req[r].skill)

\* ranking A=100, B=300, C=200 and ledger D=250 give B, D, C, A
C2_Witness ==
    \E r \in Requests :
        /\ RankedDone(r)
        /\ req[r].skill = attack
        /\ [k \in 1..Len(req[r].top_players) |-> req[r].top_players[k].username] = <<uA, uB, uC>>
        /\ [k \in 1..Len(req[r].all_players) |-> req[r].all_players[k].username] = <<uB, uD, uC, uA>>
        /\ [k \in 1..Len(req[r].all_players) |-> req[r].all_players[k].stats[attack].xp]
                = <<300, 250, 200, 100>>

\* C3: no request ends in an exception, whatever the overlap.
C3_NoRequestRaises == \A r \in Requests : req[r].pc # "raised"

\* C10: the table identifier of a ranking request is the catalog id of the
\* lower-cased skill name, and 0 when the catalog has no such name; the
\* request goes on to the ranking call.
C10_TableIdFallback ==
    \A r \in Requests :
        (req[r].pc # "idle" /\ req[r].search = <<>>) =>
            /\ \A k \in 1..Len(SkillNames) :
                    Lower(req[r].skill) = SkillNames[k] => req[r].table_id = k - 1
            /\ (\A k \in 1..Len(SkillNames) : Lower(req[r].skill) # SkillNames[k])
                    => req[r].table_id = 0
            /\ req[r].skill = Attack => req[r].table_id = 1
            /\ req[r].skill = bogus => req[r].table_id = 0
            /\ req[r].pc # "raised"

C10_Witness ==
    \E r \in Requests :
        /\ req[r].pc = "ranking_get"
        /\ req[r].skill = bogus
        /\ req[r].table_id = 0


\* C11: for a feed of any length the Ranking Fetcher fetches stats only for
\* the first 5 entries, every one of those entries is in the ledger with
\* source ranking once the fetcher has returned, and the players it returns
\* are the resolved ones in feed order.
C11_FirstFiveRecorded ==
    \A r \in Requests :
        LET rq == req[r]
            first == SubSeq(rq.data, 1, Min({5, Len(rq.data)}))
        IN  /\ rq.pc = "top_fetch" => (rq.i <= 5 /\ rq.lookup = rq.data[rq.i].name)
            /\ (RankedDone(r) /\ \A k \in 1..Len(first) : "name" \in DOMAIN first[k]) =>
                  /\ \A k \in 1..Len(first) :
                        \E j \in 1..Len(discovered_players_db) :
                            /\ discovered_players_db[j].key = Lower(first[k].name)
                            /\ discovered_players_db[j].source = "ranking_api"
                  /\ \E pick \in SUBSET (1..Len(first)) :
                        LET Picked(k) == k \in pick
                            idx == SelectSeq([k \in 1..Len(first) |-> k], Picked)
                        IN  [k \in 1..Len(idx) |-> first[idx[k]].name]
                                = [k \in 1..Len(rq.top_players) |-> rq.top_players[k].username]

\* C12: a request with a search term never reaches the Ranking Fetcher or
\* the loop over the ledger; when it is done it has fetched that one
\* username, the ledger holds it under the lower-cased key with source
\* search, and the response carries it as the only player, whatever the page.
C12_SearchBypass ==
    \A r \in Requests :
        req[r].search # <<>> =>
            /\ req[r].pc \in {"search_fetch", "done"}
            /\ req[r].lookup = req[r].search
            /\ req[r].data = <<>> /\ req[r].top_players = <<>> /\ req[r].fetch_log = <<>>
            /\ req[r].pc = "done" =>
                  /\ \E j \in 1..Len(discovered_players_db) :
                        discovered_players_db[j] = [key |-> Lower(req[r].search),
                                                    username |-> req[r].search,
                                                    source |-> "search"]
                  /\ Len(req[r].response[1].hiscores) = 1
                  /\ Lower(req[r].response[1].hiscores[1].username)
                        = Lower(DisplayOf(req[r].search))

\* C17: the step that builds a response sets its total to the number of
\* ledger entries at that moment plus 50, for every page, limit and search
\* term and whatever the size of the merged list.
C17_TotalIsLedgerPlusFifty ==
    [][\A r \in Requests :
          (req[r].pc # "done" /\ req'[r].pc = "done")
              => req'[r].response[1].total_players = Len(discovered_players_db') + 50
      ]_vars

\* page 2 of a merged list of four players is empty and the total is 54
C17_Witness ==
    \E r \in Requests :
        /\ RankedDone(r)
        /\ req[r].page = 2
        /\ Len(req[r].all_players) = 4
        /\ req[r].response[1].hiscores = <<>>
        /\ Len(discovered_players_db) = 4
        /\ req[r].response[1].total_players = 54

(***************************************************************************)
(* fetch_clan_members (main.py:426-457).  A response of the roster         *)
(* endpoint is [raised, status, content]; content is the decoded text.     *)
(***************************************************************************)
LineParts(line) == Split(line, ",")

\* main.py:439-441: the line is not blank and has at least 4 fields
LineKept(line) == Strip(line) # <<>> /\ Len(LineParts(line)) >= 4

\* main.py:448-449: int() raises on a field isdigit() accepted
LineRaises(line) ==
    /\ LineKept(line)
    /\ \/ IsDigit(LineParts(line)[3]) /\ IntRaises(LineParts(line)[3])
       \/ IsDigit(LineParts(line)[4]) /\ IntRaises(LineParts(line)[4])

\* main.py:442-451
MemberOf(line) ==
    LET parts == LineParts(line)
    IN  [username  |-> Strip(parts[1]),
         clan_rank |-> Strip(parts[2]),
         total_xp  |-> IF IsDigit(parts[3]) THEN IntValue(parts[3]) ELSE 0,
         kills     |-> IF IsDigit(parts[4]) THEN IntValue(parts[4]) ELSE 0]

\* main.py:433-457
fetch_clan_members(resp) ==
    IF resp.raised \/ resp.status # 200 THEN <<>>
    ELSE LET lines == Tail(Split(Strip(resp.content), "\n"))
             kept == SelectSeq(lines, LineKept)
         IN  IF \E k \in 1..Len(kept) : LineRaises(kept[k]) THEN <<>>
             ELSE [k \in 1..Len(kept) |-> MemberOf(kept[k])]

(***************************************************************************)
(* get_rank_priority and get_clan_members_paginated (main.py:459-512).     *)
(***************************************************************************)
RankLabels == <<
    <<"O","w","n","e","r">>,
    <<"D","e","p","u","t","y"," ","O","w","n","e","r">>,
    <<"O","v","e","r","s","e","e","r">>,
    <<"C","o","o","r","d","i","n","a","t","o","r">>,
    <<"O","r","g","a","n","i","s","e","r">>,
    <<"A","d","m","i","n">>,
    <<"G","e","n","e","r","a","l">>,
    <<"C","a","p","t","a","i","n">>,
    <<"L","i","e","u","t","e","n","a","n","t">>,
    <<"S","e","r","g","e","a","n","t">>,
    <<"C","o","r","p","o","r","a","l">>,
    <<"R","e","c","r","u","i","t">> >>

get_rank_priority_or_zero(rank) ==
    IF \E i \in 1..Len(RankLabels) : RankLabels[i] = rank
    THEN CHOOSE i \in 1..Len(RankLabels) : RankLabels[i] = rank
    ELSE 0

\* main.py:459-475
get_rank_priority(rank) ==
    IF \E i \in 1..Len(RankLabels) : RankLabels[i] = rank
    THEN CHOOSE i \in 1..Len(RankLabels) : RankLabels[i] = rank
    ELSE 999

\* main.py:494-497: y stays in front of x when x is inserted after it
StaysBefore(y, x, sort_by) ==
    IF sort_by = "xp" THEN y.total_xp >= x.total_xp
    ELSE \/ get_rank_priority(y.clan_rank) < get_rank_priority(x.clan_rank)
         \/ /\ get_rank_priority(y.clan_rank) = get_rank_priority(x.clan_rank)
            /\ ~StrLess(x.username, y.username)

RECURSIVE SortMembersPrefix(_, _, _)
SortMembersPrefix(s, n, sort_by) ==
    IF n = 0 THEN <<>>
    ELSE LET sorted == SortMembersPrefix(s, n - 1, sort_by)
             pos == Cardinality({i \in 1..Len(sorted) : StaysBefore(sorted[i], s[n], sort_by)})
         IN  SubSeq(sorted, 1, pos) \o <<s[n]>> \o SubSeq(sorted, pos + 1, Len(sorted))

\* main.py:494-497
SortMembers(s, sort_by) == SortMembersPrefix(s, Len(s), sort_by)

\* main.py:485-512; fetched is what fetch_clan_members returned (line 488)
get_clan_members_paginated(page, limit, search, sort_by, resp) ==
    LET lim == EffectiveLimit(limit)
        fetched == fetch_clan_members(resp)
        Matches(m) == Contains(Lower(m.username), Lower(search))
        members == SortMembers(IF search # <<>> THEN SelectSeq(fetched, Matches) ELSE fetched,
                               sort_by)
    IN  [fetched       |-> fetched,
         members       |-> PageOf(members, page, lim),
         page          |-> page,
         limit         |-> lim,
         total_members |-> Len(members),
         has_next      |-> ((page - 1) * lim + lim < Len(members))]

(***************************************************************************)
(* get_global_hiscores from what its fetches returned: lines 313-314 and   *)
(* 337-353 applied to given top_players and discovered_with_stats.         *)
(***************************************************************************)
HiscoresFromLists(page, limit, skill, top_players, discovered_with_stats) ==
    LET lim == EffectiveLimit(limit)
        all_players == SortByXp(top_players \o discovered_with_stats, skill)
        resp == HiscoresResponse(PageOf(all_players, page, lim), page, lim, skill, <<>>)
    IN  [all_players |-> all_players,
         hiscores    |-> resp.hiscores,
         page        |-> resp.page,
         limit       |-> resp.limit,
         has_next    |-> resp.has_next]

(***************************************************************************)
(* The calls of SpecPaging.                                                *)
(***************************************************************************)
MaxPlayers == 40
MaxPage == 3
MaxRosterLines == 2

RequestedLimits == {7, 15, 30, 50}

\* player k of a generated list is named "p" and its two-digit number
PlayerName(k) == <<"p", Digits[((k \div 10) % 10) + 1], Digits[(k % 10) + 1]>>

\* distinct: all xp differ and are out of order; ties: three xp values only
PatternXp(k, pattern) == IF pattern = "distinct" THEN (7 * k) % 41 ELSE k % 3

PlayerNo(k, pattern) ==
    CacheEntry(PlayerName(k), Profile(PlayerName(k), PatternXp(k, pattern)))

\* the ranking part holds at most 5 players (main.py:141)
HiscoresCalls ==
    { [op |-> "hiscores", page |-> p, limit |-> l, skill |-> attack,
       top_players |-> [k \in 1..(IF n < 5 THEN n ELSE 5) |-> PlayerNo(k, pat)],
       discovered_with_stats |-> [k \in 1..(IF n < 5 THEN 0 ELSE n - 5) |-> PlayerNo(k + 5, pat)]] :
        p \in 1..MaxPage, l \in RequestedLimits, n \in 0..MaxPlayers,
        pat \in {"distinct", "ties"} }

Header == <<"n","a","m","e",",","r","a","n","k",",","x","p",",","k","i","l","l","s">>

RosterLinePool == {
    <<"Z","e","d",",","O","w","n","e","r",",","3","0","0",",","5">>,
    <<"a","m","y",",","R","e","c","r","u","i","t",",","1","0","0",",","0">>,
    <<"B","o","b",",","P","i","r","a","t","e",",","3","0","0",",","1">>,
    <<" ","A","b","e"," ",",","O","w","n","e","r",",","7","0",",","2">>,
    <<"C","a","t",",","A","d","m","i","n",",","a","b","c",",","3">>,
    <<"D","a","n",",","C","a","p","t","a","i","n",",","5","0",",","x">>,
    <<"G","u","s",",","A","d","m","i","n",",","1","0",",","4","\r">>,
    <<"E","v","e",",","G","e","n","e","r","a","l",",","7","0">>,
    <<"F","a","y",",","A","d","m","i","n",",",Sup2,",","1">>,
    <<" "," ">> }

RECURSIVE SeqsUpTo(_, _)
SeqsUpTo(S, n) ==
    IF n = 0 THEN {<<>>}
    ELSE SeqsUpTo(S, n - 1) \cup
         {Append(q, x) : q \in {t \in SeqsUpTo(S, n - 1) : Len(t) = n - 1}, x \in S}

RosterResponses ==
    {[raised |-> FALSE, status |-> 200, content |-> Join(<<Header>> \o ls, "\n")] :
        ls \in SeqsUpTo(RosterLinePool, MaxRosterLines)}
    \cup { [raised |-> FALSE, status |-> 200, content |-> <<>>],
           [raised |-> FALSE, status |-> 503, content |-> <<>>],
           [raised |-> TRUE,  status |-> 0,   content |-> <<>>] }

MembersCalls ==
    { [op |-> "members", page |-> p, limit |-> l, search |-> q, sort_by |-> sb, resp |-> rs] :
        p \in 1..2, l \in {7, 30}, q \in {<<>>, <<"B">>}, sb \in {"rank", "xp", "name"},
        rs \in RosterResponses }

\* get_global_hiscores, lines 313-314 and 337-353
HiscoresMergeAndPage ==
    /\ call.op = "hiscores"
    /\ result = None
    /\ result' = Some(HiscoresFromLists(call.page, call.limit, call.skill,
                                        call.top_players, call.discovered_with_stats))
    /\ UNCHANGED <<call, hiscoreVars, activityVars>>

\* get_clan_members_paginated, lines 478-512
MembersPaginated ==
    /\ call.op = "members"
    /\ result = None
    /\ result' = Some(get_clan_members_paginated(call.page, call.limit, call.search,
                                                 call.sort_by, call.resp))
    /\ UNCHANGED <<call, hiscoreVars, activityVars>>

InitPaging ==
    /\ InitState
    /\ env \in OverlapScenarios
    /\ call \in HiscoresCalls \cup MembersCalls
    /\ result = None
    /\ clock = StartClock
    /\ act = NoActivities

NextPaging == HiscoresMergeAndPage \/ MembersPaginated

SpecPaging == InitPaging /\ [][NextPaging]_vars


(***************************************************************************)
(* Claims about paging.                                                    *)
(***************************************************************************)
HiscoresReturned == call.op = "hiscores" /\ result # None
MembersReturned == call.op = "members" /\ result # None

\* C5: for a sorted list of n players, page p >= 1 and effective limit L the
\* page is the elements at indexes (p-1)*L .. min(p*L, n)-1, in order; with
\* n = 40 and L = 15 page 1 is indexes 0..14 and page 3 is indexes 30..39,
\* ten elements, with has_next false.
C5_PageIsSlice ==
    HiscoresReturned =>
        LET out == result[1]
            n == Len(out.all_players)
            lo == (call.page - 1) * out.limit
            hi == IF call.page * out.limit < n THEN call.page * out.limit ELSE n
        IN  /\ Len(out.hiscores) = (IF hi > lo THEN hi - lo ELSE 0)
            /\ \A k \in 1..Len(out.hiscores) : out.hiscores[k] = out.all_players[lo + k]
            /\ (n = 40 /\ out.limit = 15 /\ call.page = 1) =>
                    out.hiscores = [k \in 1..15 |-> out.all_players[k]]
            /\ (n = 40 /\ out.limit = 15 /\ call.page = 3) =>
                    /\ out.hiscores = [k \in 1..10 |-> out.all_players[30 + k]]
                    /\ ~out.has_next

C5_Witness ==
    /\ HiscoresReturned
    /\ Len(result[1].all_players) = 40
    /\ result[1].limit = 15
    /\ call.page = 3
    /\ Len(result[1].hiscores) = 10
    /\ ~result[1].has_next

\* C6: the sort is stable: players with equal xp for the target skill keep
\* the relative order they had in top_players + discovered_with_stats.
C6_SortIsStable ==
    HiscoresReturned =>
        LET before == call.top_players \o call.discovered_with_stats
            after == result[1].all_players
        IN  \A v \in {XpKey(before[k], call.skill) : k \in 1..Len(before)} :
                LET HasXp(p) == XpKey(p, call.skill) = v
                IN  SelectSeq(after, HasXp) = SelectSeq(before, HasXp)

\* two players with equal xp, one from each part of the list, moved by the sort
C6_Witness ==
    /\ HiscoresReturned
    /\ \E i \in 1..Len(call.top_players), j \in 1..Len(call.discovered_with_stats) :
        /\ XpKey(call.top_players[i], call.skill)
                = XpKey(call.discovered_with_stats[j], call.skill)
        /\ result[1].all_players # call.top_players \o call.discovered_with_stats

\* C7: both handlers use and report the requested page size when it is 15,
\* 30 or 50, and 15 otherwise (7 gives 15).
C7_LimitCoercion ==
    (HiscoresReturned \/ MembersReturned) =>
        LET out == result[1]
            page == IF call.op = "hiscores" THEN out.hiscores ELSE out.members
            total == IF call.op = "hiscores" THEN Len(out.all_players) ELSE out.total_members
            want == IF call.limit = 15 \/ call.limit = 30 \/ call.limit = 50
                    THEN call.limit ELSE 15
            rest == total - (call.page - 1) * want
        IN  /\ out.limit = want
            /\ call.limit = 7 => out.limit = 15
            /\ Len(page) = (IF rest < 0 THEN 0 ELSE IF rest < want THEN rest ELSE want)

\* limit=7 against more than 15 players: 15 are returned and 15 is reported
C7_Witness ==
    /\ HiscoresReturned
    /\ call.limit = 7
    /\ result[1].limit = 15
    /\ Len(result[1].hiscores) = 15

\* a field that reads as a number
Numeric(field) == field # <<>> /\ \A k \in 1..Len(field) : IsAsciiDigit(field[k])

WellFormedLine(line) ==
    /\ Len(Split(line, ",")) >= 4
    /\ Numeric(Split(line, ",")[3])
    /\ Numeric(Split(line, ",")[4])

\* C9: a roster line with fewer than 4 fields or a non-numeric XP or
\* kill-count field yields no member; every well-formed line of the same
\* response yields exactly one.
C9_BadLinesSkipped ==
    (MembersReturned /\ ~call.resp.raised /\ call.resp.status = 200) =>
        LET lines == Tail(Split(Strip(call.resp.content), "\n"))
            good == SelectSeq(lines, WellFormedLine)
        IN  [k \in 1..Len(result[1].fetched) |-> result[1].fetched[k].username]
                = [k \in 1..Len(good) |-> Strip(Split(good[k], ",")[1])]


(***************************************************************************)
(* get_clan_activities (main.py:589-691).  The request gives up control at *)
(* the roster GET (598), at asyncio.gather (650), whose member fetches     *)
(* each await their own GET (609) and resolve in any order, and at the     *)
(* pause between batches (659).                                            *)
(*   pc: idle -> roster_get -> gather -> (sleep -> gather)* -> done        *)
(* An exception inside the try block ends in the outer except (679-691).   *)
(* A date string in the format '%d-%b-%Y %H:%M' is [valid, minutes]: the   *)
(* local time it denotes, in minutes since the epoch; any other text is    *)
(* [valid |-> FALSE].                                                      *)
(***************************************************************************)
batch_size == 20

\* main.py:621-622: strptime(...).timestamp()
Timestamp(date) == 60 * date.minutes

InWindowStrict(activity_timestamp, now) ==
    activity_timestamp > now - (12 * 7 * 24 * 60 * 60)

\* main.py:617 and 624
InWindow(activity_timestamp, now) ==
    activity_timestamp >= now - (12 * 7 * 24 * 60 * 60)

\* main.py:620-634: the event is appended; a missing key or a bad date skips it
EventKept(activity, now) ==
    /\ "date" \in DOMAIN activity
    /\ activity.date.valid
    /\ InWindow(Timestamp(activity.date), now)
    /\ "text" \in DOMAIN activity
    /\ "details" \in DOMAIN activity

fetch_member_activities_first(member, resp, now) ==
    IF resp.raised \/ resp.status # 200 THEN <<>>
    ELSE LET activities == IF "activities" \in DOMAIN resp.data
                           THEN resp.data.activities ELSE <<>>
             Kept(a) == EventKept(a, now)
             kept == SelectSeq(activities, Kept)
         IN  [k \in 1..Min({1, Len(kept)}) |->
                [username  |-> member.username,
                 text      |-> kept[k].text,
                 details   |-> kept[k].details,
                 date      |-> kept[k].date,
                 timestamp |-> Timestamp(kept[k].date)]]

\* main.py:606-642
fetch_member_activities(member, resp, now) ==
    IF resp.raised \/ resp.status # 200 THEN <<>>
    ELSE LET activities == IF "activities" \in DOMAIN resp.data
                           THEN resp.data.activities ELSE <<>>
             Kept(a) == EventKept(a, now)
             kept == SelectSeq(activities, Kept)
         IN  [k \in 1..Len(kept) |->
                [username  |-> member.username,
                 text      |-> kept[k].text,
                 details   |-> kept[k].details,
                 date      |-> kept[k].date,
                 timestamp |-> Timestamp(kept[k].date)]]

RECURSIVE ExtendUntilEmpty(_, _, _)
ExtendUntilEmpty(all, results, idx) ==
    IF idx = <<>> \/ results[Head(idx)] = <<>> THEN all
    ELSE ExtendUntilEmpty(all \o results[Head(idx)], results, Tail(idx))

\* main.py:652-656: every result is a list here and is appended, in batch order
RECURSIVE ExtendAll(_, _, _)
ExtendAll(all, results, idx) ==
    IF idx = <<>> THEN all
    ELSE ExtendAll(all \o results[Head(idx)], results, Tail(idx))

RECURSIVE SortActivitiesTiesFirst(_, _)
SortActivitiesTiesFirst(s, n) ==
    IF n = 0 THEN <<>>
    ELSE LET sorted == SortActivitiesTiesFirst(s, n - 1)
             pos == Cardinality({i \in 1..Len(sorted) : sorted[i].timestamp > s[n].timestamp})
         IN  SubSeq(sorted, 1, pos) \o <<s[n]>> \o SubSeq(sorted, pos + 1, Len(sorted))

\* main.py:662  sort(key=lambda x: x['timestamp'], reverse=True): element n is
\* put behind the elements of the sorted prefix that are not earlier than it
RECURSIVE SortActivitiesPrefix(_, _)
SortActivitiesPrefix(s, n) ==
    IF n = 0 THEN <<>>
    ELSE CHOOSE out \in
            { LET pos == Cardinality({i \in 1..Len(sorted) : sorted[i].timestamp >= s[n].timestamp})
              IN  SubSeq(sorted, 1, pos) \o <<s[n]>> \o SubSeq(sorted, pos + 1, Len(sorted)) :
                sorted \in {SortActivitiesPrefix(s, n - 1)} } : TRUE

SortActivities(s) == SortActivitiesPrefix(s, Len(s))

\* main.py:661-677
FinishActivities(a, all) ==
    LET sorted == SortActivities(all)
    IN  [a EXCEPT !.pc = "done",
                  !.all_activities = sorted,
                  !.response = Some(
                     [activities       |-> PageOf(sorted, a.page, a.limit),
                      page             |-> a.page,
                      limit            |-> a.limit,
                      total_activities |-> Len(sorted),
                      has_next         |-> ((a.page - 1) * a.limit + a.limit < Len(sorted))])]

IssueAllRemaining(a, i) ==
    [a EXCEPT !.pc = "gather",
              !.i = i,
              !.pending = {k \in 1..Len(a.members) : i < k}]

\* main.py:645-650: the batch starting after index i is cut and its fetches are issued
IssueBatch(a, i) ==
    [a EXCEPT !.pc = "gather",
              !.i = i,
              !.pending = {k \in 1..Len(a.members) : i < k /\ k <= i + batch_size}]

(***************************************************************************)
(* What the activity endpoint may answer.  Events lie exactly 12 weeks,    *)
(* 12 weeks and a minute, and exactly 11 weeks before StartClock.          *)
(***************************************************************************)
DateAt(minutes) == [valid |-> TRUE, minutes |-> minutes]
Event(text, date) == [date |-> date, text |-> text, details |-> "details"]

EvEdge == Event("edge", DateAt(200000 - 12 * 7 * 24 * 60))
EvOld == Event("old", DateAt(200000 - 12 * 7 * 24 * 60 - 1))
Ev11w == Event("11w", DateAt(200000 - 11 * 7 * 24 * 60))
EvNew == Event("new", DateAt(200000 - 1))
EvBadDate == Event("bad", [valid |-> FALSE, minutes |-> 0])
EvNoDate == [text |-> "nodate", details |-> "details"]
EvNoText == [date |-> DateAt(200000 - 2), details |-> "details"]

ActivityResponses ==
    {[raised |-> FALSE, status |-> 200, data |-> [activities |-> acts]] :
        acts \in { <<>>, <<EvNew>>, <<EvEdge, Ev11w>>, <<EvOld, EvBadDate, EvNew>>,
                   <<EvNoDate, EvNoText, Ev11w, Event("11w again", Ev11w.date)>> }}
    \cup { [raised |-> FALSE, status |-> 200, data |-> [name |-> "x"]],
           [raised |-> FALSE, status |-> 500, data |-> [name |-> "x"]],
           [raised |-> TRUE,  status |-> 0,   data |-> [name |-> "x"]] }

\* the roster line of a generated member
GeneratedLine(k) ==
    PlayerName(k) \o <<",","R","e","c","r","u","i","t",",","1","0","0",",","0">>

\* a roster of n generated members: n = batch_size fills one batch,
\* n = batch_size + 1 needs two
GeneratedRoster(n) ==
    [raised |-> FALSE, status |-> 200,
     content |-> Join(<<Header>> \o [k \in 1..n |-> GeneratedLine(k)], "\n")]

\* the roster of n members Zed, amy, Zed, ...
SmallRoster(n) ==
    [raised |-> FALSE, status |-> 200,
     content |-> Join(<<Header>> \o
                      [k \in 1..n |->
                          IF k % 2 = 1
                          THEN <<"Z","e","d",",","O","w","n","e","r",",","3","0","0",",","5">>
                          ELSE <<"a","m","y",",","R","e","c","r","u","i","t",",","1","0","0",",","0">>],
                      "\n")]

ActivityRosters ==
    { SmallRoster(n) : n \in 0..MaxRosterLines }
    \cup { GeneratedRoster(batch_size), GeneratedRoster(batch_size + 1) }
    \cup { [raised |-> FALSE, status |-> 503, content |-> <<>>] }

\* For a generated member the endpoint holds one answer: a failure when the
\* member's number is even, one recent event otherwise.
ActivityResponsesFor(member) ==
    IF member.username[1] = "p"
    THEN IF member.username[3] \in {"0", "2", "4", "6", "8"}
         THEN {[raised |-> FALSE, status |-> 500, data |-> [name |-> "x"]]}
         ELSE {[raised |-> FALSE, status |-> 200, data |-> [activities |-> <<EvNew>>]]}
    ELSE ActivityResponses

\* The fetches of a batch resolve in any order; those of a generated roster
\* are followed in the order issued only.
MayResolve(k, a) ==
    /\ k \in a.pending
    /\ a.members[k].username[1] = "p" => \A j \in a.pending : k <= j

MaxTicks == 1

\* main.py:590-598
StartActivities ==
    \E page \in {1, 2}, limit \in {1, 10} :
        /\ act.pc = "idle"
        /\ act' = [NoActivities EXCEPT !.pc = "roster_get", !.page = page, !.limit = limit]
        /\ UNCHANGED <<clock, hiscoreVars, callVars>>

\* an exception leaves the try block and is not handled
ExceptionEscapes(a) == [a EXCEPT !.pc = "raised"]

\* main.py:679-691: the outer except answers for the request
ExceptResponse(a) ==
    [a EXCEPT !.pc = "done",
              !.caught = TRUE,
              !.response = Some([activities       |-> <<>>,
                                 page             |-> 1,
                                 limit            |-> a.limit,
                                 total_activities |-> 0,
                                 has_next         |-> FALSE])]

\* main.py:598-650, or 598-677 when the roster is empty; entering the
\* AsyncClient context of line 644 may raise
RosterResponse ==
    \E resp \in ActivityRosters, client_raises \in BOOLEAN :
        LET a == [act EXCEPT !.roster = Some(resp), !.members = fetch_clan_members(resp)]
        IN  /\ act.pc = "roster_get"
            /\ act' = IF client_raises THEN ExceptResponse(a)
                      ELSE IF a.members = <<>> THEN FinishActivities(a, <<>>)
                      ELSE IssueBatch(a, 0)
            /\ UNCHANGED <<clock, hiscoreVars, callVars>>

\* main.py:609-642: the fetch of member k resolves
ActivityResponse(k) ==
    \E resp \in ActivityResponsesFor(act.members[k]) :
        /\ act.pc = "gather"
        /\ MayResolve(k, act)
        /\ act' = [act EXCEPT
                    !.pending = @ \ {k},
                    !.batch_results = DictPut(@, k, fetch_member_activities(act.members[k], resp, clock)),
                    !.got = DictPut(@, k, [resp |-> resp, now |-> clock])]
        /\ UNCHANGED <<clock, hiscoreVars, callVars>>

PauseAfterFullBatch(a) == a.i + batch_size <= Len(a.members)

\* main.py:658  if i + batch_size < len(members)
PauseDue(a) == a.i + batch_size < Len(a.members)

\* main.py:650-659, or 650-677 after the last batch
BatchDone ==
    LET idx == [j \in 1..Cardinality({k \in 1..Len(act.members) :
                                         act.i < k /\ k <= act.i + batch_size}) |-> act.i + j]
    IN  /\ act.pc = "gather"
        /\ act.pending = {}
        /\ \E all \in {ExtendAll(act.all_activities, act.batch_results, idx)} :
              act' = IF PauseDue(act)
                     THEN [act EXCEPT !.pc = "sleep", !.all_activities = all, !.pauses = @ + 1]
                     ELSE FinishActivities(act, all)
        /\ UNCHANGED <<clock, hiscoreVars, callVars>>

\* main.py:659, then 645-650 for the next batch
SleepDone ==
    /\ act.pc = "sleep"
    /\ act' = IssueBatch(act, act.i + batch_size)
    /\ UNCHANGED <<clock, hiscoreVars, callVars>>

\* time passes
Tick ==
    /\ clock < StartClock + MaxTicks
    /\ clock' = clock + 1
    /\ UNCHANGED <<act, hiscoreVars, callVars>>

InitActivities ==
    /\ InitState
    /\ env \in OverlapScenarios
    /\ call = NoCall
    /\ result = None
    /\ clock = StartClock
    /\ act = NoActivities

NextActivities ==
    \/ StartActivities
    \/ RosterResponse
    \/ \E k \in 1..Len(act.members) : ActivityResponse(k)
    \/ BatchDone
    \/ SleepDone
    \/ Tick

SpecActivities == InitActivities /\ [][NextActivities]_vars

\* the steps of a request that wait for nothing but the event loop, the
\* roster answer, the answer of an issued fetch (main.py:611, 656) or the
\* end of the 0.2 s sleep (main.py:659)
ActivityProgress ==
    \/ RosterResponse
    \/ \E k \in 1..Len(act.members) : ActivityResponse(k)
    \/ BatchDone
    \/ SleepDone

\* every awaited answer arrives and the event loop runs what is ready
SpecActivitiesFair == SpecActivities /\ WF_vars(ActivityProgress)

(***************************************************************************)
(* Claims about get_clan_activities                                        *)
(***************************************************************************)
\* the events the activity endpoint delivered to the fetch of member k
EventsDelivered(k) ==
    LET resp == act.got[k].resp
    IN  IF ~resp.raised /\ resp.status = 200 /\ "activities" \in DOMAIN resp.data
        THEN resp.data.activities ELSE <<>>

FetchFailed(k) == act.got[k].resp.raised \/ act.got[k].resp.status # 200

\* an event of the endpoint's shape {date, text, details} whose date parses
HasParsedTimestamp(a) ==
    /\ DOMAIN a = {"date", "text", "details"}
    /\ a.date.valid

ActivityOf(k, a) ==
    [username |-> act.members[k].username, text |-> a.text, details |-> a.details,
     date |-> a.date, timestamp |-> 60 * a.date.minutes]

SameBatch(k, j) == (k - 1) \div batch_size = (j - 1) \div batch_size

\* C4: when the request is done and the fetch of one member of a batch
\* failed (non-200 status or raised exception), every event of every other
\* member of that batch that lies in that member's 12-week window is in the
\* merged pre-pagination list, and the request has returned a normal
\* response that reports the merged list.
C4_BatchIsolation ==
    act.pc = "done" =>
        /\ act.response # None
        /\ act.response[1].total_activities = Len(act.all_activities)
        /\ \A k \in DOMAIN act.got, j \in DOMAIN act.got :
              (k # j /\ SameBatch(k, j) /\ FetchFailed(k)) =>
                  \A n \in 1..Len(EventsDelivered(j)) :
                      LET a == EventsDelivered(j)[n]
                      IN  (HasParsedTimestamp(a)
                              /\ 60 * a.date.minutes >= act.got[j].now - 7257600)
                          => ActivityOf(j, a) \in Range(act.all_activities)

\* a finished request in which a member's fetch failed and a later member of
\* the same batch delivered an in-window event, which is in the merged list
C4_Witness ==
    /\ act.pc = "done"
    /\ \E k \in DOMAIN act.got, j \in DOMAIN act.got :
          /\ k < j /\ SameBatch(k, j) /\ FetchFailed(k)
          /\ \E n \in 1..Len(EventsDelivered(j)) :
                /\ HasParsedTimestamp(EventsDelivered(j)[n])
                /\ ActivityOf(j, EventsDelivered(j)[n]) \in Range(act.all_activities)

\* C8: an event with parsed timestamp t is among the events the fetch of
\* member k returns exactly when t >= now - 7257600, where now is the time
\* the fetch read; so an event dated 12 weeks and 1 second before now is
\* left out and one dated 11 weeks before now is returned.
C8_WindowIsTwelveWeeks ==
    \A k \in DOMAIN act.got :
        \A n \in 1..Len(EventsDelivered(k)) :
            LET a == EventsDelivered(k)[n]
            IN  HasParsedTimestamp(a) =>
                   (ActivityOf(k, a) \in Range(act.batch_results[k])
                        <=> 60 * a.date.minutes >= act.got[k].now - 7257600)

\* a fetch that read the clock one second after StartClock: the event dated
\* 12 weeks and 1 second earlier is left out, the one dated 11 weeks and one
\* second earlier is returned
C8_Witness ==
    \E k \in DOMAIN act.got :
        /\ act.got[k].now = StartClock + 1
        /\ EventsDelivered(k) = <<EvEdge, Ev11w>>
        /\ 60 * EvEdge.date.minutes = act.got[k].now - 7257600 - 1
        /\ 60 * Ev11w.date.minutes = act.got[k].now - (11 * 7 * 24 * 60 * 60) - 1
        /\ ActivityOf(k, EvEdge) \notin Range(act.batch_results[k])
        /\ ActivityOf(k, Ev11w) \in Range(act.batch_results[k])

RosterFailed == act.roster # None /\ (act.roster[1].raised \/ act.roster[1].status # 200)

\* C13: when the roster fetch failed, or an exception was raised inside the
\* pipeline, a request for page >= 1 with limit >= 1 ends with a response
\* whose activity list is empty, whose total is 0 and whose has_next is
\* false; it never ends in an exception.
C13_FailureGivesEmptyPage ==
    /\ act.pc # "raised"
    /\ (act.pc = "done" /\ (RosterFailed \/ act.caught)) =>
          /\ act.response # None
          /\ act.response[1].activities = <<>>
          /\ act.response[1].total_activities = 0
          /\ act.response[1].has_next = FALSE

\* the roster answered with members and the exception came afterwards
C13_Witness ==
    /\ act.pc = "done"
    /\ act.caught
    /\ ~RosterFailed
    /\ act.members # <<>>
    /\ act.response[1].activities = <<>>
    /\ ~act.response[1].has_next

\* the roster endpoint answered 503
C13_WitnessRoster ==
    /\ act.pc = "done"
    /\ RosterFailed
    /\ ~act.caught
    /\ act.response[1].total_activities = 0


(***************************************************************************)
(* get_player_stats (main.py:265-303).  The request gives up control at    *)
(* the roster GET inside fetch_clan_members (271) and at the stats GET     *)
(* inside fetch_player_stats (282).  fetch_player_stats returns the dict   *)
(* it has just stored in the cache (line 115), so the store of line 286    *)
(* writes into the cached entry.  That store is an action of its own,      *)
(* AttachClanRank; it runs in the same resumption as the fetch's return,   *)
(* so no other action is enabled while a request stands before it.         *)
(*   pc: idle -> roster_get -> stats_fetch -> (attach ->) done | not_found *)
(* In SpecStats the variable call holds one such request per caller.       *)
(***************************************************************************)
\* str.replace('\xa0', ' '); the one-character string "nbsp" is U+00A0
ReplaceNbsp(s) == [k \in 1..Len(s) |-> IF s[k] = "nbsp" THEN " " ELSE s[k]]

\* main.py:272-280: the rank of the first member whose name matches, else None
ClanRankOf(clan_members, decoded_username) ==
    LET hits == {k \in 1..Len(clan_members) :
                    ReplaceNbsp(Lower(clan_members[k].username))
                        = ReplaceNbsp(Lower(decoded_username))}
    IN  IF hits = {} THEN None ELSE Some(clan_members[Min(hits)].clan_rank)

\* 'if clan_rank:' : neither None nor the empty string
HasClanRank(clan_rank) == clan_rank # None /\ clan_rank[1] # <<>>

\* main.py:289-301
RankOnlyResponse(decoded_username, clan_rank) ==
    [username  |-> decoded_username,
     stats     |-> [n \in {overall} |-> [rank |-> None, level |-> 0, xp |-> 0]],
     clan_rank |-> clan_rank]

\* the callers of get_player_stats
NumCallers == 1
Callers == 1..NumCallers

NoPlayerStats ==
    [pc |-> "idle", username |-> <<>>, clan_rank |-> None, got |-> None, response |-> None]

StatsNames ==
    [Zed |-> <<"Z","e","d">>, zed |-> <<"z","e","d">>, Bob |-> <<"B","o","b">>,
     Bad |-> <<"B","a","d">>]

\* what the stats service holds: Zed with one skill; "zed" answered without a
\* name or rank, with an unknown skill id and a skill without level or xp;
\* Bob without skill values; Bad with a rank that is no number
StatsProfiles ==
    [u \in Range(StatsNames) |->
        CASE u = StatsNames.Zed -> Profile(StatsNames.Zed, 300)
          [] u = StatsNames.zed -> [totalxp |-> 5,
                          skillvalues |-> <<[id |-> 99, level |-> 3, xp |-> 7, rank |-> 2],
                                            [id |-> 1], [id |-> 0, level |-> 2, xp |-> 9]>>]
          [] u = StatsNames.Bob -> [name |-> StatsNames.Bob, rank |-> <<"0">>]
          [] OTHER -> [name |-> StatsNames.Bad, rank |-> <<"1", "x">>]]

\* the roster as get_player_stats may receive it
PlayerRosters ==
    { SmallRoster(2),
      [raised |-> FALSE, status |-> 200,
       content |-> Join(<<Header, <<"B","o","b",",",",","1",",","2">> >>, "\n")],
      [raised |-> FALSE, status |-> 503, content |-> <<>>] }

\* line 286 is about to run in some request
Attaching == \E r \in Callers : call[r].pc = "attach"

\* main.py:266-271
StartPlayerStats(r) ==
    \E username \in DOMAIN env.profiles :
        /\ ~Attaching
        /\ call[r].pc = "idle"
        /\ call' = [call EXCEPT ![r] = [NoPlayerStats EXCEPT !.pc = "roster_get",
                                                              !.username = username]]
        /\ UNCHANGED <<result, hiscoreVars, activityVars>>

\* main.py:271-282
PlayerRosterResponse(r) ==
    \E resp \in PlayerRosters :
        /\ ~Attaching
        /\ call[r].pc = "roster_get"
        /\ call' = [call EXCEPT ![r].pc = "stats_fetch",
                                ![r].clan_rank = ClanRankOf(fetch_clan_members(resp),
                                                            call[r].username)]
        /\ UNCHANGED <<result, hiscoreVars, activityVars>>

\* main.py:72-125 and 282-303, up to the store of line 286; got keeps the
\* answer of the stats endpoint
PlayerStatsFetchResponse(r) ==
    \E resp \in StatsResponses(call[r].username) :
        LET c == [call[r] EXCEPT !.got = Some(resp)]
            stats == FetchResult(c.username, resp)
        IN  /\ ~Attaching
            /\ c.pc = "stats_fetch"
            /\ player_stats_cache' = CacheAfterFetch(player_stats_cache, c.username, resp)
            /\ call' = [call EXCEPT ![r] =
                            IF stats # None /\ HasClanRank(c.clan_rank)
                            THEN [c EXCEPT !.pc = "attach"]
                            ELSE IF stats # None
                            THEN [c EXCEPT !.pc = "done", !.response = stats]
                            ELSE IF HasClanRank(c.clan_rank)
                            THEN [c EXCEPT !.pc = "done",
                                           !.response = Some(RankOnlyResponse(c.username,
                                                                              c.clan_rank[1]))]
                            ELSE [c EXCEPT !.pc = "not_found"]]
            /\ UNCHANGED <<discovered_players_db, env, req, result, activityVars>>

\* main.py:286-287  stats['clan_rank'] = clan_rank; return stats
AttachClanRank(r) ==
    LET c == call[r]
        key == Lower(c.username)
        stats == DictPut(player_stats_cache[key], "clan_rank", c.clan_rank[1])
    IN  /\ c.pc = "attach"
        /\ player_stats_cache' = [player_stats_cache EXCEPT ![key] = stats]
        /\ call' = [call EXCEPT ![r] = [c EXCEPT !.pc = "done", !.response = Some(stats)]]
        /\ UNCHANGED <<discovered_players_db, env, req, result, activityVars>>

\* the response, or the 404 of line 303, has gone to the caller
DeliverPlayerStats(r) ==
    /\ ~Attaching
    /\ call[r].pc \in {"done", "not_found"}
    /\ call' = [call EXCEPT ![r] = NoPlayerStats]
    /\ UNCHANGED <<result, hiscoreVars, activityVars>>

\* the process is fresh, or an earlier search for Zed has filled both stores
InitStats ==
    /\ env = [profiles |-> StatsProfiles]
    /\ \E seen \in BOOLEAN :
          /\ player_stats_cache =
                IF seen
                THEN CacheAfterFetch(<<>>, StatsNames.Zed,
                                     [raised |-> FALSE, status |-> 200,
                                      data |-> StatsProfiles[StatsNames.Zed]])
                ELSE <<>>
          /\ discovered_players_db =
                IF seen THEN LedgerPut(<<>>, StatsNames.Zed, "search") ELSE <<>>
    /\ req = [r \in Requests |-> NoRequest]
    /\ call = [r \in Callers |-> NoPlayerStats]
    /\ result = None
    /\ clock = StartClock
    /\ act = NoActivities

NextStats ==
    \E r \in Callers :
        \/ StartPlayerStats(r)
        \/ PlayerRosterResponse(r)
        \/ PlayerStatsFetchResponse(r)
        \/ AttachClanRank(r)
        \/ DeliverPlayerStats(r)

SpecStats == InitStats /\ [][NextStats]_vars

(***************************************************************************)
(* Claims about the Stats Cache.                                           *)
(***************************************************************************)
\* C14: a step changes the value stored under a cache key only by putting a
\* whole new entry there, made of the fields a successful fetch stores
\* (stats and username); no step adds or rewrites a field of a stored entry.
C14_EntriesReplacedWhole ==
    [][\A k \in DOMAIN player_stats_cache' :
          (k \notin DOMAIN player_stats_cache \/ player_stats_cache'[k] # player_stats_cache[k])
              => /\ DOMAIN player_stats_cache'[k] = {"stats", "username"}
                 /\ \E r \in Callers : call[r].pc = "stats_fetch" /\ call'[r].pc # "stats_fetch"
      ]_vars

\* C15: in every state every cache entry holds a skill record (rank, level,
\* xp) for each of the 30 catalog names, overall and the 29 skills, whatever
\* skills the response carried.
C15_EveryCatalogSkill ==
    /\ Cardinality(Range(SkillNames)) = 30
    /\ \A k \in DOMAIN player_stats_cache :
          \A n \in Range(SkillNames) :
              /\ n \in DOMAIN player_stats_cache[k].stats
              /\ DOMAIN player_stats_cache[k].stats[n] = {"rank", "level", "xp"}

\* the entry made from a response that carried an unknown skill id, a skill
\* without level and xp, and attack: 28 skills carry the placeholder values
C15_Witness ==
    \E k \in DOMAIN player_stats_cache :
        LET stats == player_stats_cache[k].stats
        IN  /\ stats[attack].xp = 9
            /\ stats[SkillNames[3]] = Placeholder
            /\ stats[overall] = [rank |-> None, level |-> 0, xp |-> 5]
            /\ Cardinality({n \in DOMAIN stats : stats[n] = Placeholder}) = 28

\* not-found, another non-200 status, an error payload, a transport error,
\* or a rank that int() rejects
StatsFetchFailed(resp) ==
    \/ resp.raised
    \/ resp.status # 200
    \/ "error" \in DOMAIN resp.data
    \/ RankRaises(resp.data)

\* C16: the step in which a stats fetch ends in not-found, a non-200 status,
\* an error payload or an exception leaves the Stats Cache, earlier entry of
\* that username included, and the Discovery Ledger as they were, and the
\* caller goes on with no data instead of an exception.
C16_FailedFetchChangesNothing ==
    [][\A r \in Callers :
          (/\ call[r].pc = "stats_fetch"
           /\ call'[r].pc # "stats_fetch"
           /\ StatsFetchFailed(call'[r].got[1]))
          => /\ player_stats_cache' = player_stats_cache
             /\ discovered_players_db' = discovered_players_db
             /\ \/ call'[r].pc = "not_found"
                \/ /\ call'[r].pc = "done"
                   /\ call'[r].response
                        = Some(RankOnlyResponse(call[r].username, call[r].clan_rank[1]))
      ]_vars

\* a failed fetch for a username whose earlier entry is still in the cache,
\* and whose ledger entry is still there
C16_Witness ==
    \E r \in Callers :
        /\ call[r].pc \in {"done", "not_found"}
        /\ StatsFetchFailed(call[r].got[1])
        /\ Lower(call[r].username) \in DOMAIN player_stats_cache
        /\ Lower(call[r].username) \in LedgerKeys(discovered_players_db)


(***************************************************************************)
(* Claims about the batches of get_clan_activities.                        *)
(***************************************************************************)
Resolved == DOMAIN act.got

\* the number of batches of a roster of n members
BatchCount(n) == (n + 19) \div 20

\* C18: the roster is cut into consecutive batches of 20, the last possibly
\* shorter, handled in order: the outstanding fetches all belong to one
\* batch, every member of an earlier batch has resolved, no member of a
\* later batch has been fetched, and at most 20 fetches are outstanding.
C18_BatchesInOrder ==
    LET n == Len(act.members)
        first == act.i + 1
        last == Min({act.i + 20, n})
    IN  /\ Cardinality(act.pending) <= 20
        /\ act.i % 20 = 0
        /\ act.pc \in {"gather", "sleep"} =>
              /\ act.i < n
              /\ act.pending \subseteq first..last
              /\ Resolved \cup act.pending = 1..last
              /\ Resolved \cap act.pending = {}
        /\ act.pc = "sleep" => act.pending = {}

\* the single member of the second batch is being fetched after all twenty
\* of the first have resolved
C18_Witness ==
    /\ act.pc = "gather"
    /\ Len(act.members) = 21
    /\ act.i = 20
    /\ act.pending = {21}
    /\ Resolved = 1..20

\* C19: a pause happens once between two successive batches and at no other
\* time: not while fetches are outstanding, not after the last batch, not
\* for a roster of 20 or fewer; a finished roster of b >= 1 batches has
\* made b - 1 pauses.
C19_PausesBetweenBatches ==
    LET n == Len(act.members)
    IN  /\ act.pc = "gather" => act.pauses = act.i \div 20
        /\ act.pc = "sleep" =>
              /\ act.pending = {}
              /\ Resolved = 1..(act.i + 20)
              /\ act.i + 20 < n
              /\ act.pauses = act.i \div 20 + 1
        /\ n <= 20 => act.pauses = 0
        /\ (act.pc = "done" /\ ~act.caught /\ n >= 1) => act.pauses = BatchCount(n) - 1

\* 21 members: two batches, one pause
C19_Witness ==
    /\ act.pc = "done"
    /\ Len(act.members) = 21
    /\ Resolved = 1..21
    /\ act.pauses = 1

\* 20 members: one batch, no pause
C19_WitnessFull ==
    /\ act.pc = "done"
    /\ Len(act.members) = 20
    /\ Resolved = 1..20
    /\ act.pauses = 0

\* the kept events of members 1..n, in roster order
RECURSIVE KeptInRosterOrder(_)
KeptInRosterOrder(n) ==
    IF n = 0 THEN <<>> ELSE KeptInRosterOrder(n - 1) \o act.batch_results[n]

\* C20: when all batches are through, the kept events are ordered by
\* timestamp, latest first, events of equal timestamp in roster order (batch,
\* then member, then source order); the page p >= 1 is the slice from
\* (p-1)*limit to p*limit; has_next is true exactly when the ordered list
\* has an element after that slice.
C20_SortedStablePage ==
    (act.pc = "done" /\ ~act.caught) =>
        LET before == KeptInRosterOrder(Len(act.members))
            sorted == act.all_activities
            n == Len(sorted)
            out == act.response[1]
            lo == (act.page - 1) * act.limit
            hi == Min({act.page * act.limit, n})
        IN  /\ Len(before) = n
            /\ \A i, j \in 1..n : i < j => sorted[i].timestamp >= sorted[j].timestamp
            /\ \A t \in {before[k].timestamp : k \in 1..n} :
                  LET At(e) == e.timestamp = t
                  IN  SelectSeq(sorted, At) = SelectSeq(before, At)
            /\ out.activities = [k \in 1..(IF hi > lo THEN hi - lo ELSE 0) |-> sorted[lo + k]]
            /\ out.has_next = (act.page * act.limit < n)
            /\ out.total_activities = n

\* two members delivered events of one timestamp, a later one follows in the
\* roster, and the page leaves part of the list for the next one
C20_Witness ==
    /\ act.pc = "done"
    /\ ~act.caught
    /\ act.response[1].has_next
    /\ \E i, j \in 1..Len(act.all_activities) :
          /\ i < j
          /\ act.all_activities[i].timestamp = act.all_activities[j].timestamp
          /\ act.all_activities[i].username # act.all_activities[j].username
    /\ KeptInRosterOrder(Len(act.members)) # act.all_activities


(***************************************************************************)
(* Claims about the values of the stored skill records.                    *)
(***************************************************************************)
\* C21: in every state every skill record of the Stats Cache, the overall
\* record included, has level >= 1 and xp >= 0, and a value the response
\* did not carry is stored as rank null, level 1, xp 0.
C21_LevelsAtLeastOne ==
    /\ \A k \in DOMAIN player_stats_cache :
          \A n \in DOMAIN player_stats_cache[k].stats :
              /\ player_stats_cache[k].stats[n].level >= 1
              /\ player_stats_cache[k].stats[n].xp >= 0
    /\ \A r \in Callers :
          call[r].pc = "attach" =>
              LET data == call[r].got[1].data
                  stats == player_stats_cache[Lower(call[r].username)].stats
              IN  /\ \A n \in Range(RUNEMETRICS_SKILL_MAPPING) :
                        SkillValue(data, n) = None => stats[n] = Placeholder
                  /\ "totalskill" \notin DOMAIN data => stats[overall].level = 1
                  /\ "totalxp" \notin DOMAIN data => stats[overall].xp = 0
                  /\ "rank" \notin DOMAIN data => stats[overall].rank = None


(***************************************************************************)
(* Claims about the ledger and the cache together.                         *)
(***************************************************************************)
\* every ledger key is a cache key: holds of the code, lines 147 and 322
\* run only after line 109 has stored the same key, and nothing is deleted
LedgerWithinCache == LedgerKeys(discovered_players_db) \subseteq DOMAIN player_stats_cache

\* C22: the ledger does not depend on the cache: a search or ranked-page
\* request whose stats fetch failed has still left the username in the
\* ledger when it is done, so that the ledger comes to hold a username for
\* which the cache has no entry.
C22_LedgerIndependentOfCache ==
    \A r \in Requests :
        LET rq == req[r]
            first == SubSeq(rq.data, 1, Min({5, Len(rq.data)}))
        IN  /\ (rq.pc = "done" /\ rq.search # <<>>) =>
                  Lower(rq.search) \in LedgerKeys(discovered_players_db)
            /\ (RankedDone(r) /\ \A k \in 1..Len(first) : "name" \in DOMAIN first[k]) =>
                  \A k \in 1..Len(first) :
                      Lower(first[k].name) \in LedgerKeys(discovered_players_db)


(***************************************************************************)
(* Claims about the paging metadata of get_global_hiscores.                *)
(***************************************************************************)
\* C23: for a request without search term and page >= 1, has_next is true
\* exactly when the sorted merged list has an element after the returned
\* page, also when the length of the list is a multiple of the effective
\* limit.
C23_HasNextExact ==
    HiscoresReturned =>
        (result[1].has_next <=> call.page * result[1].limit < Len(result[1].all_players))


(***************************************************************************)
(* Claims about the whole run of get_clan_activities.                      *)
(***************************************************************************)
\* the events of member k that the request is to keep: those of the
\* endpoint's shape whose date parses into the 12 weeks before the moment
\* the answer was handled, none when the fetch failed
ExpectedOf(k) ==
    LET InTime(a) == HasParsedTimestamp(a) /\ 60 * a.date.minutes >= act.got[k].now - 7257600
        kept == SelectSeq(EventsDelivered(k), InTime)
    IN  IF FetchFailed(k) THEN <<>> ELSE [j \in 1..Len(kept) |-> ActivityOf(k, kept[j])]

RECURSIVE ExpectedInRosterOrder(_)
ExpectedInRosterOrder(n) ==
    IF n = 0 THEN <<>> ELSE ExpectedInRosterOrder(n - 1) \o ExpectedOf(n)

\* no fetch is issued for a member whose fetch has been issued before, and
\* a request that went through its loop has fetched every member and holds,
\* before paging, each expected event as often as the members delivered it
\* and nothing else
AllFetchedOnce ==
    /\ act.pending \cap Resolved = {}
    /\ act.pending \cup Resolved \subseteq 1..Len(act.members)
    /\ (act.pc = "done" /\ ~act.caught) =>
          LET n == Len(act.members)
              expected == ExpectedInRosterOrder(n)
          IN  /\ act.pending = {}
              /\ Resolved = 1..n
              /\ Len(act.all_activities) = Len(expected)
              /\ \A e \in Range(expected) \cup Range(act.all_activities) :
                    Count(act.all_activities, e) = Count(expected, e)

\* C24: for every finite roster, when every issued fetch resolves, the
\* request comes to its end, having issued one activity fetch for each
\* roster member, none skipped and none repeated, and its list before
\* paging holds exactly the in-window events of the members whose fetch
\* succeeded, each once.
C24_TerminatesWithAllFetched ==
    /\ []AllFetchedOnce
    /\ (act.pc = "roster_get") ~> (act.pc = "done")

\* a finished request over two batches in which fetches failed and others
\* delivered events
C24_Witness ==
    /\ act.pc = "done"
    /\ ~act.caught
    /\ Len(act.members) = 21
    /\ Resolved = 1..21
    /\ \E k \in Resolved : FetchFailed(k)
    /\ Len(act.all_activities) = 11

\* a finished request in which a member delivered two events inside the
\* window and others outside it or without a date
C24_WitnessMixed ==
    /\ act.pc = "done"
    /\ ~act.caught
    /\ \E k \in Resolved :
          /\ Len(EventsDelivered(k)) = 4
          /\ Len(ExpectedOf(k)) = 2
    /\ \E k \in Resolved : Len(EventsDelivered(k)) = 3 /\ Len(ExpectedOf(k)) = 1


(***************************************************************************)
(* Claims about the order of get_clan_members_paginated.                   *)
(***************************************************************************)
Owner == <<"O","w","n","e","r">>
Recruit == <<"R","e","c","r","u","i","t">>

\* (priority, username) of x is not after that of y
RankKeyNotAfter(x, y) ==
    \/ get_rank_priority(x.clan_rank) < get_rank_priority(y.clan_rank)
    \/ /\ get_rank_priority(x.clan_rank) = get_rank_priority(y.clan_rank)
       /\ (x.username = y.username \/ StrLess(x.username, y.username))

\* C25: with sort_by other than xp the filtered roster comes out ordered by
\* (rank priority ascending, username ascending), the priority being the
\* table Owner = 1 to Recruit = 12 with 999 for every other label, so that
\* members with an unrecognized label come after all others; with
\* sort_by = xp it comes out by total XP descending.
C25_MemberOrder ==
    MembersReturned =>
        LET out == result[1].members
            Matches(m) == Contains(Lower(m.username), Lower(call.search))
            filtered == IF call.search # <<>> THEN SelectSeq(result[1].fetched, Matches)
                        ELSE result[1].fetched
        IN  /\ get_rank_priority(Owner) = 1
            /\ get_rank_priority(Recruit) = 12
            /\ \A i, j \in 1..Len(RankLabels) :
                  i < j => get_rank_priority(RankLabels[i]) < get_rank_priority(RankLabels[j])
            /\ \A k \in 1..Len(filtered) :
                  filtered[k].clan_rank \notin Range(RankLabels)
                      => get_rank_priority(filtered[k].clan_rank) = 999
            /\ call.page = 1 =>
                  /\ Len(out) = Len(filtered)
                  /\ \A m \in Range(filtered) : Count(out, m) = Count(filtered, m)
            /\ \A i, j \in 1..Len(out) :
                  i < j =>
                      IF call.sort_by = "xp" THEN out[i].total_xp >= out[j].total_xp
                      ELSE /\ RankKeyNotAfter(out[i], out[j])
                           /\ out[i].clan_rank \notin Range(RankLabels)
                                  => out[j].clan_rank \notin Range(RankLabels)

\* a member with an unrecognized label, first in the roster, comes out
\* behind the owner
C25_Witness ==
    /\ MembersReturned
    /\ call.sort_by = "name"
    /\ Len(result[1].fetched) = 2
    /\ result[1].fetched[1].clan_rank \notin Range(RankLabels)
    /\ result[1].fetched[2].clan_rank = Owner
    /\ result[1].members = <<result[1].fetched[2], result[1].fetched[1]>>

\* two owners, the later name first in the roster, come out by username
C25_WitnessTies ==
    /\ MembersReturned
    /\ call.sort_by = "rank"
    /\ Len(result[1].fetched) = 2
    /\ result[1].fetched[1].clan_rank = Owner
    /\ result[1].fetched[2].clan_rank = Owner
    /\ result[1].members = <<result[1].fetched[2], result[1].fetched[1]>>

\* with sort_by = xp a recruit with more XP comes out before the owner
C25_WitnessXp ==
    /\ MembersReturned
    /\ call.sort_by = "xp"
    /\ Len(result[1].members) = 2
    /\ result[1].members[1].total_xp > result[1].members[2].total_xp
    /\ get_rank_priority(result[1].members[1].clan_rank)
            > get_rank_priority(result[1].members[2].clan_rank)

====
